---- MODULE Spec2Model ----
(***************************************************************************)
(* Model of script/puppeteer_scrape_sheep.js: one run of the scraper is a  *)
(* linear pipeline (load previous metrics, drive the browser, extract the  *)
(* frame text, parse the "Select Row" blocks, build the metrics object,    *)
(* compare with the previous metrics, write).  Strings are sequences of    *)
(* one-character strings, so that split/trim/replace and JSON.stringify /  *)
(* JSON.parse are computed rather than assumed.                            *)
(***************************************************************************)
EXTENDS Integers, Sequences, FiniteSets, TLC

\* ------------------------------------------------------------------------
\* Bounds of the model
\* ------------------------------------------------------------------------
MaxRuns == 2        \* consecutive runs of the script against the same file
MaxMarkers == 5     \* most "Select Row" lines in a generated text
MaxClock == 2       \* distinct values new Date() can return

\* ------------------------------------------------------------------------
\* Program constants
\* ------------------------------------------------------------------------
BlockLen == 11      \* lines.slice(i, i + 11)
ExpectedRows == 4   \* rows.length !== 4
IndentWidth == 2    \* JSON.stringify(metrics, null, 2)

\* ------------------------------------------------------------------------
\* Characters
\* ------------------------------------------------------------------------
Digits == {"0", "1", "2", "3", "4", "5", "6", "7", "8", "9"}
Whitespace == {" ", "\t", "\r", "\n"}
SelectRow == <<"S", "e", "l", "e", "c", "t", " ", "R", "o", "w">>

Min(a, b) == IF a < b THEN a ELSE b

\* ------------------------------------------------------------------------
\* allText.split("\n").map(l => l.trim()).filter(Boolean)
\* ------------------------------------------------------------------------
Indices(seq) == [k \in 1..Len(seq) |-> k]

\* String.prototype.split("\n"): the pieces between consecutive "\n", always
\* at least one piece
SplitNewline(text) ==
    LET IsNewline(j) == text[j] = "\n"
        nl == SelectSeq(Indices(text), IsNewline)
    IN [k \in 1..(Len(nl) + 1) |->
           SubSeq(text,
                  IF k = 1 THEN 1 ELSE nl[k - 1] + 1,
                  IF k = Len(nl) + 1 THEN Len(text) ELSE nl[k] - 1)]

\* String.prototype.trim(): drop leading and trailing white space
Trim(l) ==
    LET inked == {j \in 1..Len(l) : l[j] \notin Whitespace} IN
    IF inked = {} THEN <<>>
    ELSE LET first == CHOOSE j \in inked : \A q \in inked : j <= q
             last == CHOOSE j \in inked : \A q \in inked : q <= j
         IN SubSeq(l, first, last)

NonEmpty(l) == Len(l) > 0

ParseLines(allText) ==
    LET pieces == SplitNewline(allText)
        trimmed == [k \in 1..Len(pieces) |-> Trim(pieces[k])]
    IN SelectSeq(trimmed, NonEmpty)

IsMarker(l) == l = SelectRow

\* lines.filter(l => l === "Select Row").length
CountMarkers(lines) == Len(SelectSeq(lines, IsMarker))

\* ------------------------------------------------------------------------
\* Row parsing loop
\* ------------------------------------------------------------------------
\* str.replace(/[^\d-]/g, "")
KeptChar(c) == c \in Digits \cup {"-"}
IsDigit(c) == c \in Digits
\* the same replace with the '-' left out of the character class
StripDigitsOnly(s) == SelectSeq(s, IsDigit)
StripNonDigit(s) == SelectSeq(s, KeptChar)

\* lines.slice(i, i + 11), i being 1-based here
BlockAt(lines, i) == SubSeq(lines, i, Min(i + BlockLen - 1, Len(lines)))

\* block[k] for the 0-based offset k is undefined past the end of the slice
Defined(block, k) == k < Len(block)

\* block[k].replace(...) on undefined raises a TypeError
RowThrows(block) == \E k \in 2..9 : ~Defined(block, k)

MakeRow(block) ==
    [sheepweekindex |-> block[2],
     total_head_inc_reoffers |-> StripNonDigit(block[3]),
     clearance_rate_mm |-> StripNonDigit(block[4]),
     amount_over_reserve |-> StripNonDigit(block[5]),
     arli_ckg_dw |-> StripNonDigit(block[6]),
     arl_change_sheepindex |-> StripNonDigit(block[7]),
     total_head_change_sheepindex |-> StripNonDigit(block[8]),
     clearance_rate_change_sheepindex |-> StripNonDigit(block[9]),
     vor_change_sheepindex |-> StripNonDigit(block[10])]

\* the for loop over the lines: one row pushed per marker, in the order of
\* the lines, until a marker whose row raises the TypeError ends the loop
ParseRows(lines) ==
    LET AtMarker(i) == IsMarker(lines[i])
        marks == SelectSeq(Indices(lines), AtMarker)
        bad == {k \in 1..Len(marks) : RowThrows(BlockAt(lines, marks[k]))}
        done == IF bad = {} THEN Len(marks)
                ELSE (CHOOSE k \in bad : \A q \in bad : k <= q) - 1
    IN [rows |-> [k \in 1..done |-> MakeRow(BlockAt(lines, marks[k]))],
        threw |-> bad # {}]

\* ------------------------------------------------------------------------
\* JSON values, JSON.stringify and JSON.parse
\* ------------------------------------------------------------------------
\* A JSON value is null, a string or an object (an ordered list of members).
JNull == [t |-> "null", s |-> <<>>, o |-> <<>>]
JStr(chars) == [t |-> "str", s |-> chars, o |-> <<>>]
JObj(members) == [t |-> "obj", s |-> <<>>, o |-> members]
Member(key, val) == [k |-> key, v |-> val]
\* a member name is written as one symbol: nothing in the program reads
\* inside a key
Key(name) == <<name>>

\* Tokens of a JSON text
Punct(c) == [k |-> c, s |-> <<>>]
StrTok(chars) == [k |-> "str", s |-> chars]
NullTok == [k |-> "null", s |-> <<>>]
WsTok(chars) == [k |-> "ws", s |-> chars]

Spaces(n) == [j \in 1..n |-> " "]
\* the line break and indentation JSON.stringify emits at nesting depth
Break(indent, depth) ==
    IF indent = 0 THEN <<>> ELSE <<WsTok(<<"\n">> \o Spaces(indent * depth))>>
Gap(indent) == IF indent = 0 THEN <<>> ELSE <<WsTok(<<" ">>)>>

RECURSIVE StringifyAt(_, _, _), StringifyMembers(_, _, _, _)
StringifyAt(val, indent, depth) ==
    IF val.t = "null" THEN <<NullTok>>
    ELSE IF val.t = "str" THEN <<StrTok(val.s)>>
    ELSE IF Len(val.o) = 0 THEN <<Punct("{"), Punct("}")>>
    ELSE <<Punct("{")>> \o StringifyMembers(val.o, 1, indent, depth + 1)
            \o Break(indent, depth) \o <<Punct("}")>>
StringifyMembers(members, j, indent, depth) ==
    IF j > Len(members) THEN <<>>
    ELSE Break(indent, depth)
            \o <<StrTok(Key(members[j].k)), Punct(":")>> \o Gap(indent)
            \o StringifyAt(members[j].v, indent, depth)
            \o (IF j < Len(members) THEN <<Punct(",")>> ELSE <<>>)
            \o StringifyMembers(members, j + 1, indent, depth)

\* JSON.stringify(value) and JSON.stringify(value, null, 2)
Stringify(val) == StringifyAt(val, 0, 0)
StringifyPretty(val) == StringifyAt(val, IndentWidth, 0)

NotWs(tok) == tok.k # "ws"
ParseFail == [ok |-> FALSE, val |-> JNull, next |-> 0]

\* recursive descent over the tokens that are not white space; the result is
\* the value read and the position after it
RECURSIVE ParseValueAt(_, _), ParseMembersAt(_, _, _)
ParseValueAt(toks, p) ==
    IF p > Len(toks) THEN ParseFail
    ELSE IF toks[p].k = "null" THEN [ok |-> TRUE, val |-> JNull, next |-> p + 1]
    ELSE IF toks[p].k = "str" THEN [ok |-> TRUE, val |-> JStr(toks[p].s), next |-> p + 1]
    ELSE IF toks[p].k = "{"
         THEN IF p + 1 <= Len(toks) /\ toks[p + 1].k = "}"
              THEN [ok |-> TRUE, val |-> JObj(<<>>), next |-> p + 2]
              ELSE ParseMembersAt(toks, p + 1, <<>>)
    ELSE ParseFail
ParseMembersAt(toks, p, acc) ==
    IF p + 1 > Len(toks) \/ toks[p].k # "str" \/ toks[p + 1].k # ":"
       \/ Len(toks[p].s) # 1
    THEN ParseFail
    ELSE LET r == ParseValueAt(toks, p + 2) IN
         IF ~r.ok \/ r.next > Len(toks) THEN ParseFail
         ELSE LET members == Append(acc, Member(toks[p].s[1], r.val)) IN
              IF toks[r.next].k = "}"
              THEN [ok |-> TRUE, val |-> JObj(members), next |-> r.next + 1]
              ELSE IF toks[r.next].k = ","
                   THEN ParseMembersAt(toks, r.next + 1, members)
                   ELSE ParseFail

\* JSON.parse(text): the value, or a SyntaxError (ok = FALSE)
JsonParse(content) ==
    LET toks == SelectSeq(content, NotWs)
        r == ParseValueAt(toks, 1)
    IN IF r.ok /\ r.next = Len(toks) + 1 THEN r ELSE ParseFail

\* ------------------------------------------------------------------------
\* The texts document.body.innerText can return
\* ------------------------------------------------------------------------
DigitChars == <<"1", "2", "3", "4", "5", "6", "7", "8", "9">>
Week(j) == <<"W", "2", "0", "2", "4", "-", "1", DigitChars[j]>>
HeadCount(v) ==
    IF v = 1 THEN <<"1", "5", "0", "0", " ", "h", "e", "a", "d">>
    ELSE <<"1", ",", "2", "3", "4", " ", "h", "e", "a", "d">>
Change(v) == IF v = 1 THEN <<"-", "3">> ELSE <<"-", "5", "%">>

\* the lines below the marker of the j-th table row: the nine cells and the
\* two lines that close the row
Cells(j, v) ==
    <<Week(j), HeadCount(v), <<"8", "5", "%">>, <<"$", "1", ",", "2", "0", "0">>,
      <<"1", "1", "0", ".", "5">>, <<"+", "2", ".", "1">>, Change(v),
      <<"1", ".", "5">>, <<"0", ".", "8">>, <<"R", "o", "w">>, <<"E", "n", "d">>>>

Gaps == {3, 10, 11}        \* lines between one marker and the next
Tails == {0, 1, 8, 9, 10}  \* lines after the last marker
Styles == {"plain", "padded"}

RECURSIVE RawBlocks(_, _, _, _, _)
RawBlocks(j, n, gap, tail, v) ==
    IF j > n THEN <<>>
    ELSE <<SelectRow>> \o SubSeq(Cells(j, v), 1, IF j = n THEN tail ELSE gap)
            \o RawBlocks(j + 1, n, gap, tail, v)

Heading == <<"S", "h", "e", "e", "p">>

\* a rendered line: as it is, or indented, followed by a carriage return and
\* by a blank line
Rendered(l, style) ==
    IF style = "plain" THEN <<l>>
    ELSE <<(<<" ", "\t">> \o l \o <<" ", "\r">>), <<" ">>>>

RenderLines(raw, style) ==
    IF style = "plain" THEN raw
    ELSE [k \in 1..(2 * Len(raw)) |-> Rendered(raw[(k + 1) \div 2], style)[2 - (k % 2)]]

\* the lines lo..hi of ls joined by "\n"
RECURSIVE JoinLines(_, _, _)
JoinLines(ls, lo, hi) ==
    IF lo > hi THEN <<>>
    ELSE IF lo = hi THEN ls[lo]
    ELSE LET mid == (lo + hi) \div 2 IN
         JoinLines(ls, lo, mid) \o <<"\n">> \o JoinLines(ls, mid + 1, hi)

Join(ls) == JoinLines(ls, 1, Len(ls))

TextOf(n, gap, tail, v, style) ==
    Join(RenderLines(<<Heading>> \o RawBlocks(1, n, gap, tail, v), style))

\* n complete 11-line blocks, in two versions of the cell values
FullTexts ==
    {TextOf(n, 10, 10, v, "plain") : n \in 1..MaxMarkers, v \in 1..2}
        \cup {TextOf(n, 10, 10, 1, "padded") : n \in 1..MaxMarkers}
\* a marker inside the 11-line window of the marker before it, or one line
\* more than a block between two markers
OverlapTexts == {TextOf(n, gap, 10, 1, "plain") : n \in 2..MaxMarkers, gap \in Gaps \ {10}}
\* fewer than 11 lines from the last marker to the end of the text
ShortTexts == {TextOf(n, 10, tail, 1, "plain") : n \in {1, 3}, tail \in Tails \ {10}}
\* no line equal to "Select Row"
NoMarkerTexts ==
    {<<>>,
     <<" ", "\n", "\r", "\n">>,
     Join(<<Heading, <<"s", "e", "l", "e", "c", "t", " ", "r", "o", "w">>,
            SelectRow \o <<"s">>, <<"S", "e", "l", "e", "c", "t">>, <<"R", "o", "w">>>>)}

Texts == FullTexts \cup OverlapTexts \cup ShortTexts \cup NoMarkerTexts

\* ------------------------------------------------------------------------
\* The metrics object
\* ------------------------------------------------------------------------
Null == [null |-> TRUE]

\* rows[k] || null for the 0-based index k: a row object is always truthy,
\* an index past the end gives undefined
\* (RowOrNullShifted: the same lookup one index too far)
RowOrNullShifted(rows, k) == IF k + 2 <= Len(rows) THEN rows[k + 2] ELSE Null
RowOrNull(rows, k) == IF k + 1 <= Len(rows) THEN rows[k + 1] ELSE Null

\* new Date().toISOString() for the clock value t
IsoString(t) == <<"2", "0", "2", "4", "-", "0", "1", "-", "0", DigitChars[t], "Z">>

NoMetrics ==
    [updated_at |-> <<>>, this_week |-> Null, last_week |-> Null,
     two_weeks_ago |-> Null, three_weeks_ago |-> Null]

MakeMetrics(rows, t) ==
    [updated_at |-> IsoString(t),
     this_week |-> RowOrNull(rows, 0),
     last_week |-> RowOrNull(rows, 1),
     two_weeks_ago |-> RowOrNull(rows, 2),
     three_weeks_ago |-> RowOrNull(rows, 3)]

\* the JSON value of a row object and of the metrics object, members in the
\* order of the object literals
RowJson(row) ==
    IF row = Null THEN JNull
    ELSE JObj(<<Member("sheepweekindex", JStr(row.sheepweekindex)),
                Member("total_head_inc_reoffers", JStr(row.total_head_inc_reoffers)),
                Member("clearance_rate_mm", JStr(row.clearance_rate_mm)),
                Member("amount_over_reserve", JStr(row.amount_over_reserve)),
                Member("arli_ckg_dw", JStr(row.arli_ckg_dw)),
                Member("arl_change_sheepindex", JStr(row.arl_change_sheepindex)),
                Member("total_head_change_sheepindex", JStr(row.total_head_change_sheepindex)),
                Member("clearance_rate_change_sheepindex",
                       JStr(row.clearance_rate_change_sheepindex)),
                Member("vor_change_sheepindex", JStr(row.vor_change_sheepindex))>>)

MetricsJson(m) ==
    JObj(<<Member("updated_at", JStr(m.updated_at)),
           Member("this_week", RowJson(m.this_week)),
           Member("last_week", RowJson(m.last_week)),
           Member("two_weeks_ago", RowJson(m.two_weeks_ago)),
           Member("three_weeks_ago", RowJson(m.three_weeks_ago))>>)

\* JavaScript truthiness of a parsed JSON value
Truthy(val) == val.t = "obj" \/ (val.t = "str" /\ Len(val.s) > 0)

\* previousMetrics && JSON.stringify(previousMetrics) === JSON.stringify(metrics)
\* the comparison of the two serializations left out
UnchangedAlways(previous, m) == Truthy(previous)
Unchanged(previous, m) ==
    Truthy(previous) /\ Stringify(previous) = Stringify(MetricsJson(m))

\* ------------------------------------------------------------------------
\* The output file
\* ------------------------------------------------------------------------
Absent == [exists |-> FALSE, content |-> <<>>]
FileWith(content) == [exists |-> TRUE, content |-> content]

\* a file cut off in the middle, and a file holding the JSON text null
TruncatedFile == FileWith(<<Punct("{"), StrTok(Key("updated_at")), Punct(":")>>)
NullFile == FileWith(<<NullTok>>)
InitialFiles == {Absent, TruncatedFile, NullFile}

\* exit code of a process whose main promise rejects without a handler: 1
\* where the runtime raises unhandled rejections, 0 where it only warns
RejectionExitCodes == {0, 1}

\* ------------------------------------------------------------------------
\* State
\* ------------------------------------------------------------------------
VARIABLES
    run,              \* number of the current run of the script
    pc,               \* the statement the run is at, "ended" after it
    outcome,          \* "running", "returned", "exited" or "rejected"
    exitCode,         \* exit code of the process, -1 while running
    thrownAt,         \* the statement whose exception ended the run, or "none"
    file,             \* ../sheepmetrics.json
    fileAtStart,      \* the file as the run found it
    reads,            \* reads of the file by this run
    writes,           \* writes of the file by this run
    previousMetrics,  \* let previousMetrics
    browser,          \* "none", "open" or "closed"
    allText,          \* const allText
    lines,            \* const lines
    selectRowCount,   \* const selectRowCount
    rows,             \* const rows
    warned,           \* the "Expected 4 rows" warning was printed
    metrics,          \* const metrics
    prev              \* what the run before this one did

vars == <<run, pc, outcome, exitCode, thrownAt, file, fileAtStart, reads, writes,
          previousMetrics, browser, allText, lines, selectRowCount, rows,
          warned, metrics, prev>>

fileVars == <<file, fileAtStart, reads, writes, previousMetrics>>
parseVars == <<allText, lines, selectRowCount, rows, warned, metrics>>

NoPrev == [ran |-> FALSE, built |-> FALSE, wrote |-> FALSE, rows |-> <<>>, stamp |-> <<>>]

Init ==
    /\ run = 1
    /\ pc = "previousMetrics"
    /\ outcome = "running"
    /\ exitCode = -1
    /\ thrownAt = "none"
    /\ file \in InitialFiles
    /\ fileAtStart = file
    /\ reads = 0
    /\ writes = 0
    /\ previousMetrics = JNull
    /\ browser = "none"
    /\ allText = <<>>
    /\ lines = <<>>
    /\ selectRowCount = 0
    /\ rows = <<>>
    /\ warned = FALSE
    /\ metrics = NoMetrics
    /\ prev = NoPrev

\* an exception leaves the async function: its promise rejects, nothing
\* handles the rejection, and no statement after the throw runs
Rejects ==
    /\ pc' = "ended"
    /\ outcome' = "rejected"
    /\ thrownAt' = pc
    /\ exitCode' \in RejectionExitCodes

Continues(next) ==
    /\ pc' = next
    /\ UNCHANGED <<outcome, exitCode, thrownAt>>

\* ------------------------------------------------------------------------
\* Load previous metrics
\* ------------------------------------------------------------------------
NoPreviousFile ==
    /\ pc = "previousMetrics"
    /\ ~file.exists
    /\ Continues("launch")
    /\ UNCHANGED <<run, fileVars, browser, parseVars, prev>>

LoadPrevious ==
    /\ pc = "previousMetrics"
    /\ file.exists
    /\ JsonParse(file.content).ok
    /\ previousMetrics' = JsonParse(file.content).val
    /\ reads' = reads + 1
    /\ Continues("launch")
    /\ UNCHANGED <<run, file, fileAtStart, writes, browser, parseVars, prev>>

LoadPreviousThrows ==
    /\ pc = "previousMetrics"
    /\ file.exists
    /\ ~JsonParse(file.content).ok
    /\ reads' = reads + 1
    /\ Rejects
    /\ UNCHANGED <<run, file, fileAtStart, writes, previousMetrics, browser, parseVars, prev>>

\* ------------------------------------------------------------------------
\* Browser
\* ------------------------------------------------------------------------
Launch ==
    /\ pc = "launch"
    /\ browser' = "open"
    /\ Continues("goto")
    /\ UNCHANGED <<run, fileVars, parseVars, prev>>

Goto ==
    /\ pc = "goto"
    /\ Continues("waitForSelector")
    /\ UNCHANGED <<run, fileVars, browser, parseVars, prev>>

GotoTimesOut ==
    /\ pc = "goto"
    /\ Rejects
    /\ UNCHANGED <<run, fileVars, browser, parseVars, prev>>

WaitForSelector ==
    /\ pc = "waitForSelector"
    /\ Continues("contentFrame")
    /\ UNCHANGED <<run, fileVars, browser, parseVars, prev>>

WaitForSelectorTimesOut ==
    /\ pc = "waitForSelector"
    /\ Rejects
    /\ UNCHANGED <<run, fileVars, browser, parseVars, prev>>

ContentFrame ==
    /\ pc = "contentFrame"
    /\ Continues("renderWait")
    /\ UNCHANGED <<run, fileVars, browser, parseVars, prev>>

RenderWait ==
    /\ pc = "renderWait"
    /\ Continues("evaluate")
    /\ UNCHANGED <<run, fileVars, browser, parseVars, prev>>

Evaluate ==
    /\ pc = "evaluate"
    /\ \E text \in Texts : allText' = text
    /\ Continues("lines")
    /\ UNCHANGED <<run, fileVars, browser, lines, selectRowCount, rows, warned, metrics, prev>>

EvaluateThrows ==
    /\ pc = "evaluate"
    /\ Rejects
    /\ UNCHANGED <<run, fileVars, browser, parseVars, prev>>

\* ------------------------------------------------------------------------
\* Parsing
\* ------------------------------------------------------------------------
SplitLines ==
    /\ pc = "lines"
    /\ lines' = ParseLines(allText)
    /\ selectRowCount' = CountMarkers(ParseLines(allText))
    /\ Continues("rows")
    /\ UNCHANGED <<run, fileVars, browser, allText, rows, warned, metrics, prev>>

ParseTableRows ==
    /\ pc = "rows"
    /\ ~ParseRows(lines).threw
    /\ rows' = ParseRows(lines).rows
    /\ Continues("validate")
    /\ UNCHANGED <<run, fileVars, browser, allText, lines, selectRowCount, warned, metrics, prev>>

ParseTableRowsThrows ==
    /\ pc = "rows"
    /\ ParseRows(lines).threw
    /\ rows' = ParseRows(lines).rows
    /\ Rejects
    /\ UNCHANGED <<run, fileVars, browser, allText, lines, selectRowCount, warned, metrics, prev>>

\* ------------------------------------------------------------------------
\* Validation
\* ------------------------------------------------------------------------
\* the check for an empty rows array left out
NoRowsNever(rs) == FALSE
NoRows(rs) == Len(rs) = 0

\* the same exit taken after the output file was already written
ExitNoRowsAfterWrite ==
    /\ pc = "validate"
    /\ NoRows(rows)
    /\ file' = FileWith(StringifyPretty(MetricsJson(MakeMetrics(rows, 1))))
    /\ writes' = writes + 1
    /\ browser' = "closed"
    /\ pc' = "ended"
    /\ outcome' = "exited"
    /\ exitCode' = 1
    /\ UNCHANGED <<run, thrownAt, fileAtStart, reads, previousMetrics, parseVars, prev>>

ExitNoRows ==
    /\ pc = "validate"
    /\ NoRows(rows)
    /\ browser' = "closed"
    /\ pc' = "ended"
    /\ outcome' = "exited"
    /\ exitCode' = 1
    /\ UNCHANGED <<run, thrownAt, fileVars, parseVars, prev>>

Validate ==
    /\ pc = "validate"
    /\ ~NoRows(rows)
    /\ warned' = (Len(rows) # ExpectedRows)
    /\ Continues("metrics")
    /\ UNCHANGED <<run, fileVars, browser, allText, lines, selectRowCount, rows, metrics, prev>>

\* ------------------------------------------------------------------------
\* Metrics, change detection, write
\* ------------------------------------------------------------------------
BuildMetrics ==
    /\ pc = "metrics"
    /\ \E t \in 1..MaxClock : metrics' = MakeMetrics(rows, t)
    /\ Continues("detect")
    /\ UNCHANGED <<run, fileVars, browser, allText, lines, selectRowCount, rows, warned, prev>>

SkipWrite ==
    /\ pc = "detect"
    /\ Unchanged(previousMetrics, metrics)
    /\ browser' = "closed"
    /\ pc' = "ended"
    /\ outcome' = "returned"
    /\ exitCode' = 0
    /\ UNCHANGED <<run, thrownAt, fileVars, parseVars, prev>>

WriteOutput ==
    /\ pc = "detect"
    /\ ~Unchanged(previousMetrics, metrics)
    /\ file' = FileWith(StringifyPretty(MetricsJson(metrics)))
    /\ writes' = writes + 1
    /\ Continues("cleanup")
    /\ UNCHANGED <<run, fileAtStart, reads, previousMetrics, browser, parseVars, prev>>

Cleanup ==
    /\ pc = "cleanup"
    /\ browser' = "closed"
    /\ pc' = "ended"
    /\ outcome' = "returned"
    /\ exitCode' = 0
    /\ UNCHANGED <<run, thrownAt, fileVars, parseVars, prev>>

\* ------------------------------------------------------------------------
\* The next run of the script
\* ------------------------------------------------------------------------
StartRun ==
    /\ pc = "ended"
    /\ run < MaxRuns
    /\ run' = run + 1
    /\ prev' = [ran |-> TRUE,
                built |-> metrics # NoMetrics,
                wrote |-> writes > 0,
                rows |-> rows,
                stamp |-> metrics.updated_at]
    /\ pc' = "previousMetrics"
    /\ outcome' = "running"
    /\ exitCode' = -1
    /\ thrownAt' = "none"
    /\ fileAtStart' = file
    /\ reads' = 0
    /\ writes' = 0
    /\ previousMetrics' = JNull
    /\ browser' = "none"
    /\ allText' = <<>>
    /\ lines' = <<>>
    /\ selectRowCount' = 0
    /\ rows' = <<>>
    /\ warned' = FALSE
    /\ metrics' = NoMetrics
    /\ UNCHANGED file

Next ==
    \/ NoPreviousFile
    \/ LoadPrevious
    \/ LoadPreviousThrows
    \/ Launch
    \/ Goto
    \/ GotoTimesOut
    \/ WaitForSelector
    \/ WaitForSelectorTimesOut
    \/ ContentFrame
    \/ RenderWait
    \/ Evaluate
    \/ EvaluateThrows
    \/ SplitLines
    \/ ParseTableRows
    \/ ParseTableRowsThrows
    \/ ExitNoRows
    \/ Validate
    \/ BuildMetrics
    \/ SkipWrite
    \/ WriteOutput
    \/ Cleanup
    \/ StartRun

Spec == Init /\ [][Next]_vars

\* ------------------------------------------------------------------------
\* Properties
\* ------------------------------------------------------------------------
Ended == pc = "ended"
Failed == Ended /\ outcome \in {"rejected", "exited"}

\* the text was extracted and split into lines
LinesParsed ==
    \/ pc \in {"rows", "validate", "metrics", "detect", "cleanup"}
    \/ Ended /\ thrownAt \in {"none", "rows"}

\* the row parsing loop has run, to its end or to an exception
RowsParsed ==
    \/ pc \in {"validate", "metrics", "detect", "cleanup"}
    \/ Ended /\ thrownAt \in {"none", "rows"}

\* the metrics object was built
MetricsBuilt ==
    \/ pc \in {"detect", "cleanup"}
    \/ Ended /\ outcome = "returned"

MarkerPositions(ls) ==
    LET AtMarker(i) == ls[i] = SelectRow IN SelectSeq(Indices(ls), AtMarker)

Slots(m) == <<m.this_week, m.last_week, m.two_weeks_ago, m.three_weeks_ago>>

\* C1: when two consecutive runs parse the same row values, only the capture
\* timestamp differs and the first run wrote the file, the second run writes
\* nothing.
C1_SecondRunWritesNothing ==
    (/\ Ended
     /\ prev.ran /\ prev.built /\ prev.wrote
     /\ MetricsBuilt
     /\ rows = prev.rows
     /\ metrics.updated_at # prev.stamp)
        => writes = 0

\* C2: a run that has launched the browser does not end with the browser
\* still open.
C2_BrowserClosedOnEveryExit ==
    (Ended /\ browser # "none") => browser = "closed"

\* C3: a text without any line equal to "Select Row" makes the run report
\* failure with exit code 1 and leaves the output file unwritten.
C3_NoMarkerFails ==
    (LinesParsed /\ \A k \in 1..Len(lines) : lines[k] # SelectRow)
        => /\ writes = 0
           /\ file = fileAtStart
           /\ pc \notin {"metrics", "detect", "cleanup"}
           /\ Ended => (outcome = "exited" /\ exitCode = 1)

C3_Witness ==
    /\ Ended /\ outcome = "exited" /\ exitCode = 1
    /\ Len(lines) > 1
    /\ \A k \in 1..Len(lines) : lines[k] # SelectRow

\* C4: a text with a nonzero number of marker blocks other than 4 makes the
\* run warn, not abort, and write a snapshot of the rows found.
C4_OtherCountWarnsAndWrites ==
    (Ended /\ LinesParsed /\ selectRowCount \notin {0, ExpectedRows})
        => /\ warned
           /\ outcome = "returned"
           /\ writes = 1
           /\ file = FileWith(StringifyPretty(MetricsJson(metrics)))

\* four markers, each followed by ten lines none of which is a marker
FourWellFormedBlocks(ls) ==
    LET marks == MarkerPositions(ls) IN
    /\ Len(marks) = ExpectedRows
    /\ \A k \in 1..Len(marks) :
          /\ marks[k] + BlockLen - 1 <= Len(ls)
          /\ \A j \in 1..(BlockLen - 1) : ls[marks[k] + j] # SelectRow

\* C5: the k-th parsed row is stored in the k-th slot, slots past the number
\* of rows are null, rows past the fourth are in no slot, and four well-formed
\* blocks give four rows that fill the four slots in order.
C5_SlotsByParseOrder ==
    /\ MetricsBuilt =>
          /\ \A k \in 1..ExpectedRows :
                Slots(metrics)[k] = (IF k <= Len(rows) THEN rows[k] ELSE Null)
          /\ \A k \in (ExpectedRows + 1)..Len(rows) :
                \A j \in 1..ExpectedRows : Slots(metrics)[j] # rows[k]
    /\ (RowsParsed /\ FourWellFormedBlocks(lines)) =>
          /\ thrownAt = "none"
          /\ Len(rows) = ExpectedRows
          /\ \A k \in 1..ExpectedRows :
                rows[k].sheepweekindex = lines[MarkerPositions(lines)[k] + 1]
          /\ MetricsBuilt => \A k \in 1..ExpectedRows : Slots(metrics)[k] = rows[k]

C5_Witness ==
    /\ Ended /\ outcome = "returned"
    /\ FourWellFormedBlocks(lines)
    /\ Slots(metrics) = rows

\* v is src with every character other than a digit or '-' taken out, the
\* characters kept being in their original order
IsStrippedOf(v, src) ==
    LET kept == {j \in 1..Len(src) : src[j] \in Digits \cup {"-"}} IN
    /\ Len(v) = Cardinality(kept)
    /\ \A j \in kept : v[Cardinality({q \in kept : q <= j})] = src[j]

StrippedFields(row) ==
    <<row.total_head_inc_reoffers, row.clearance_rate_mm, row.amount_over_reserve,
      row.arli_ckg_dw, row.arl_change_sheepindex, row.total_head_change_sheepindex,
      row.clearance_rate_change_sheepindex, row.vor_change_sheepindex>>

Example1234Head == <<"1", ",", "2", "3", "4", " ", "h", "e", "a", "d">>
ExampleMinus5 == <<"-", "5", "%">>
Example110 == <<"1", "1", "0", ".", "5">>

\* C6: in every parsed row the field at offset 1 is the source line
\* unchanged, and each field at offsets 2 to 9 is its source line with
\* everything but digits and '-' removed, order kept.
C6_FieldStripping ==
    \A k \in 1..Len(rows) :
        LET at == MarkerPositions(lines)[k] IN
        /\ rows[k].sheepweekindex = lines[at + 1]
        /\ \A f \in 1..8 :
              LET v == StrippedFields(rows[k])[f]
                  src == lines[at + 1 + f]
              IN /\ IsStrippedOf(v, src)
                 /\ \A j \in 1..Len(v) : v[j] \in Digits \cup {"-"}
                 /\ src = Example1234Head => v = <<"1", "2", "3", "4">>
                 /\ src = ExampleMinus5 => v = <<"-", "5">>
                 /\ src = Example110 => v = <<"1", "1", "0", "5">>

C6_Witness ==
    /\ RowsParsed
    /\ Len(rows) > 0
    /\ rows[1].total_head_inc_reoffers = <<"1", "2", "3", "4">>
    /\ rows[1].total_head_change_sheepindex = <<"-", "5">>
    /\ lines[MarkerPositions(lines)[1] + 2] = Example1234Head
    /\ lines[MarkerPositions(lines)[1] + 7] = ExampleMinus5

\* C7: the file is read at most once, at the start, and written at most
\* once, at the end; past the change detector the file was written exactly
\* when no prior snapshot was loaded or the two compact serializations
\* differ, and otherwise the run ended successfully without a write.
C7_ReadOnceWriteOnce ==
    /\ reads <= 1
    /\ writes <= 1
    /\ pc = "previousMetrics" => (reads = 0 /\ writes = 0)
    /\ writes = 1 => (pc \in {"cleanup", "ended"} /\ MetricsBuilt)
    /\ writes = 0 => file = fileAtStart
    /\ (MetricsBuilt /\ pc # "detect") =>
          /\ writes = 1 <=>
                (reads = 0 \/ Stringify(previousMetrics) # Stringify(MetricsJson(metrics)))
          /\ writes = 1 => file = FileWith(StringifyPretty(MetricsJson(metrics)))
          /\ writes = 0 => (Ended /\ outcome = "returned" /\ exitCode = 0)

C7_Witness ==
    /\ Ended /\ outcome = "returned"
    /\ reads = 1 /\ writes = 0
    /\ Stringify(previousMetrics) = Stringify(MetricsJson(metrics))

\* C8: the parser accumulates one row per marker line, so the number of rows
\* equals the number of markers counted beforehand.
C8_OneRowPerMarker ==
    RowsParsed => Len(rows) = selectRowCount

\* a marker with fewer than 11 lines from it to the end of the lines
ShortBlock(ls) ==
    \E i \in 1..Len(ls) : ls[i] = SelectRow /\ Len(ls) - i + 1 < BlockLen

\* C9: a marker with fewer than 11 lines left still gives a record, and the
\* run goes on to build the metrics.
C9_ShortBlockStillParsed ==
    (RowsParsed /\ ShortBlock(lines))
        => /\ thrownAt = "none"
           /\ Len(rows) = Len(MarkerPositions(lines))
           /\ outcome # "rejected"

\* C10: a run that ends in failure leaves the output file as it found it;
\* the write comes only after a row was parsed and the metrics were built.
C10_FailureLeavesFile ==
    /\ Failed => (file = fileAtStart /\ writes = 0)
    /\ writes > 0 => (Len(rows) > 0 /\ MetricsBuilt)

C10_Witness ==
    /\ Failed
    /\ thrownAt = "rows"
    /\ fileAtStart.exists
    /\ JsonParse(fileAtStart.content).ok
    /\ file = fileAtStart

====
